---- MODULE Spec2Model ----
(***************************************************************************)
(* Model of dynamic_structures.py: self-defining ctypes structures.        *)
(*                                                                         *)
(* A structure type is built one field at a time: every field adds one     *)
(* subclass (TmpStructure) to an inheritance chain that starts at an       *)
(* empty BuildStructure.  A field whose type is a function is resolved by  *)
(* calling the function with the chain so far, filled from the buffer,     *)
(* and with the rest of the buffer.                                        *)
(*                                                                         *)
(* A type is a record [size, align, composite, inner]; inner lists the     *)
(* fields of a composite as [name, offset, size].  A structure type under  *)
(* construction is a record [fields, size, align], fields being a sequence *)
(* of [name, typ, offset, anon] in declaration order.                      *)
(***************************************************************************)
EXTENDS Integers, Sequences, FiniteSets, TLC

\* Bounds of the model.
MaxFields == 3
MaxBufLen == 3
MaxArrayLength == 3

Bytes == {0, 1, 2}
Packs == {1, 2, 4}

Min(a, b) == IF a < b THEN a ELSE b
Max(a, b) == IF a > b THEN a ELSE b

\* n rounded up to a multiple of a (a >= 1).
AlignUp(n, a) == ((n + a - 1) \div a) * a

\* Python's s[k:] for k >= 0.
SliceFrom(s, k) == IF k >= Len(s) THEN <<>> ELSE SubSeq(s, k + 1, Len(s))

\* Python's s[:k] for k >= 0.
SliceTo(s, k) == SubSeq(s, 1, Min(k, Len(s)))

(***************************************************************************)
(* ctypes types used by the callers of the module.                         *)
(***************************************************************************)
c_uint8 == [size |-> 1, align |-> 1, composite |-> FALSE, inner |-> <<>>]

c_uint16 == [size |-> 2, align |-> 2, composite |-> FALSE, inner |-> <<>>]

c_uint32 == [size |-> 4, align |-> 4, composite |-> FALSE, inner |-> <<>>]

\* t * n, a ctypes array type.
ArrayOf(t, n) ==
    [size |-> t.size * n, align |-> t.align, composite |-> FALSE, inner |-> <<>>]

\* A caller-defined Structure with _pack_ = 1 and two one-byte fields; a field
\* of this type may carry the name of one of its inner fields.
Tmp ==
    [size |-> 2, align |-> 1, composite |-> TRUE,
     inner |-> << [name |-> "A", offset |-> 0, size |-> 1],
                  [name |-> "V", offset |-> 1, size |-> 1] >>]

(***************************************************************************)
(* Field tuples: (name, type), (name, function) or (name, type, bits).     *)
(***************************************************************************)
FieldOfType(n, t) == [name |-> n, len |-> 2, typ |-> t, fn |-> "none"]

FieldOfFunction(n, f) == [name |-> n, len |-> 2, typ |-> c_uint8, fn |-> f]

BitField(n, t) == [name |-> n, len |-> 3, typ |-> t, fn |-> "none"]

\* The field tuples of the schemas given to getDynamicStructure.
FieldTuples ==
    { FieldOfType("A", c_uint8),
      FieldOfType("B", c_uint32),
      FieldOfFunction("E", "arrayOfFirst"),
      FieldOfFunction("P", "pickByBuffer"),
      BitField("F", c_uint8) }

\* The field tuples of the schemas whose attributes are read.
LookupFieldTuples ==
    { FieldOfType("A", c_uint8),
      FieldOfType("B", c_uint32),
      FieldOfType("V", Tmp) }

\* The field tuples of the schemas of array elements.
ArrayFieldTuples ==
    { FieldOfType("A", c_uint8),
      FieldOfFunction("E", "arrayOfFirst"),
      FieldOfFunction("P", "pickByBuffer") }

SchemasOf(tuples) == UNION { [1..n -> tuples] : n \in 0..MaxFields }

Buffers == UNION { [1..n -> Bytes] : n \in 0..MaxBufLen }

\* The buffers 1, 2, 0, 1, ... of every length up to MaxBufLen.
CountingBuffers == { [i \in 1..n |-> i % 3] : n \in 0..MaxBufLen }

AnonymousSets == { {}, {"V"}, {"A"} }

(***************************************************************************)
(* Structure types and instances.                                          *)
(***************************************************************************)
\* class BuildStructure(BaseStructure): _pack_ = pack   (no fields yet)
EmptyStructure == [fields |-> <<>>, size |-> 0, align |-> 1]

\* The structure type seen as the type of a field of another structure.
AsType(st) ==
    [size |-> st.size, align |-> st.align, composite |-> TRUE,
     inner |-> [i \in 1..Len(st.fields) |->
                   [name |-> st.fields[i].name,
                    offset |-> st.fields[i].offset,
                    size |-> st.fields[i].typ.size]]]

\* A fresh instance of a structure of n bytes: ctypes zeroes it.
Zeroed(n) == [i \in 1..n |-> 0]

\* The loop of BaseStructure.fill: self._getBytes()[i] = buffer[i] for i in
\* range(n), written with the 1-based indices of sequences.
RECURSIVE fillLoop(_, _, _, _)
fillLoop(bytes, buf, i, n) ==
    IF i > n THEN bytes
    ELSE fillLoop([bytes EXCEPT ![i] = buf[i]], buf, i + 1, n)

\* A fill whose loop stops one byte early.
fillOneShort(st, buf) ==
    fillLoop(Zeroed(st.size), buf, 1, Min(Len(buf), st.size) - 1)

\* st().fill(buf): the bytes of the instance.
fill(st, buf) == fillLoop(Zeroed(st.size), buf, 1, Min(Len(buf), st.size))

\* BuildStructure.getBytesCopy: the instance's bytes [:sizeof(self)].
getBytesCopy(bytes, st) == SliceTo(bytes, st.size)

\* A TmpStructure that ignores _pack_.
TmpStructureUnpacked(parent, name, typ, pk, anon) ==
    LET a == typ.align
        off == AlignUp(parent.size, a)
        total == Max(parent.align, a)
    IN  [fields |-> Append(parent.fields,
                           [name |-> name, typ |-> typ, offset |-> off,
                            anon |-> name \in anon]),
         size |-> AlignUp(off + typ.size, total),
         align |-> total]

\* class TmpStructure(parent): _pack_ = pack; _fields_ = [(name, typ)].
\* ctypes places the field of a subclass after the parent's size, which is
\* already padded to the parent's alignment.
TmpStructure(parent, name, typ, pk, anon) ==
    LET a == Min(pk, typ.align)
        off == AlignUp(parent.size, a)
        total == Max(parent.align, a)
    IN  [fields |-> Append(parent.fields,
                           [name |-> name, typ |-> typ, offset |-> off,
                            anon |-> name \in anon]),
         size |-> AlignUp(off + typ.size, total),
         align |-> total]

\* The functions callers give as a field's type, f(self, buffer):
\*   arrayOfFirst   c_uint8 * (the first byte of self), as the tests'
\*                  lambda self, buffer: self.NumElements * c_uint8
\*   pickByBuffer   a type chosen by buffer[0], as getCorrectVersionStructure
CallFunction(f, selfBytes, remainder) ==
    IF f = "arrayOfFirst"
    THEN ArrayOf(c_uint8, IF Len(selfBytes) = 0 THEN 0 ELSE selfBytes[1])
    ELSE IF remainder[1] = 0 THEN c_uint8
         ELSE IF remainder[1] = 1 THEN c_uint16
         ELSE c_uint32

NoCall == <<>>

Raised(e, name, parent, call) ==
    [err |-> e, field |-> name, st |-> parent, call |-> call]

\* A test of the tuple's length that lets tuples of three through.
IsBitFieldLenNot3(fieldTuple) == fieldTuple.len \notin {2, 3}

\* if len(fieldTuple) != 2
IsBitField(fieldTuple) == fieldTuple.len # 2

\* A remainder cut at the number of the parent's fields, not at its size.
RemainderByFieldCount(buf, parent) == SliceFrom(buf, Len(parent.fields))

\* remainderOfBuffer = buffer[sizeof(parent):]
RemainderOfBuffer(buf, parent) == SliceFrom(buf, parent.size)

\* A comparison that also refuses a remainder of exactly the type's size.
InsufficientOffByOne(remainder, typ) == Len(remainder) <= typ.size

\* if len(remainderOfBuffer) < sizeof(calculatedDynamicType())
Insufficient(remainder, typ) == Len(remainder) < typ.size

\* getStructureType: the structure type parent extended by one field, or the
\* exception raised.  call is the call made to the field's function, if any.
getStructureType(fieldTuple, buf, parent, pk, anon) ==
    IF IsBitField(fieldTuple)
    THEN Raised("BitFieldUnsupportedError", fieldTuple.name, parent, NoCall)
    ELSE
    LET name == fieldTuple.name
        parentFilledTillNow == fill(parent, buf)
        remainderOfBuffer == RemainderOfBuffer(buf, parent)
        calculatedDynamicType ==
            CallFunction(fieldTuple.fn, parentFilledTillNow, remainderOfBuffer)
        call == << [field |-> name, self |-> parentFilledTillNow,
                    selfType |-> parent, remainder |-> remainderOfBuffer,
                    typ |-> calculatedDynamicType] >>
        newType == IF fieldTuple.fn # "none" THEN calculatedDynamicType
                   ELSE fieldTuple.typ
        \* ctypes refuses an anonymous field whose type has no _fields_
        made == IF name \in anon /\ ~newType.composite
                THEN Raised("AttributeError", name, parent, NoCall)
                ELSE [err |-> "none", field |-> name,
                      st |-> TmpStructure(parent, name, newType, pk, anon),
                      call |-> NoCall]
    IN  IF fieldTuple.fn # "none"
        THEN IF Len(remainderOfBuffer) = 0
             THEN Raised("BufferSizeInsufficient", name, parent, NoCall)
             ELSE IF Insufficient(remainderOfBuffer, calculatedDynamicType)
             THEN Raised("BufferSizeInsufficient", name, parent, call)
             ELSE [made EXCEPT !.call = call]
        ELSE made

\* The loop of getDynamicStructureType from field i on; an exception ends it.
RECURSIVE buildFrom(_, _, _, _, _, _)
buildFrom(flds, i, buf, st, pk, anon) ==
    IF i > Len(flds)
    THEN [err |-> "none", field |-> "", st |-> st, call |-> NoCall]
    ELSE LET r == getStructureType(flds[i], buf, st, pk, anon)
         IN  IF r.err # "none" THEN r
             ELSE buildFrom(flds, i + 1, buf, r.st, pk, anon)

getDynamicStructureType(flds, buf, pk, anon) ==
    buildFrom(flds, 1, buf, EmptyStructure, pk, anon)

(***************************************************************************)
(* Attribute lookup on an instance of the chain.  Each field lives in a    *)
(* class of its own, so the most derived class (the last field) is         *)
(* searched first; in a class whose field is anonymous, ctypes installs    *)
(* the descriptors of the inner fields after the field's own, and a later  *)
(* descriptor of the same name replaces an earlier one.                    *)
(***************************************************************************)
NotFound ==
    [name |-> "", found |-> FALSE, owner |-> 0, inner |-> 0,
     offset |-> 0, size |-> 0, value |-> <<>>]

\* Index of the last field of the composite type t called name, 0 if none.
InnerIndex(t, name) ==
    LET S == { j \in 1..Len(t.inner) : t.inner[j].name = name }
    IN  IF S = {} THEN 0 ELSE CHOOSE j \in S : \A k \in S : k <= j

RECURSIVE getattrFrom(_, _, _)
getattrFrom(st, i, name) ==
    IF i = 0 THEN [NotFound EXCEPT !.name = name]
    ELSE LET f == st.fields[i]
             j == IF f.anon THEN InnerIndex(f.typ, name) ELSE 0
         IN  IF j # 0
             THEN [name |-> name, found |-> TRUE, owner |-> i, inner |-> j,
                   offset |-> f.offset + f.typ.inner[j].offset,
                   size |-> f.typ.inner[j].size, value |-> <<>>]
             ELSE IF f.name = name
             THEN [name |-> name, found |-> TRUE, owner |-> i, inner |-> 0,
                   offset |-> f.offset, size |-> f.typ.size, value |-> <<>>]
             ELSE getattrFrom(st, i - 1, name)

\* A lookup that searches the fields from the first declared to the last.
RECURSIVE getattrUpFrom(_, _, _)
getattrUpFrom(st, i, name) ==
    IF i > Len(st.fields) THEN [NotFound EXCEPT !.name = name]
    ELSE LET f == st.fields[i]
             j == IF f.anon THEN InnerIndex(f.typ, name) ELSE 0
         IN  IF j # 0
             THEN [name |-> name, found |-> TRUE, owner |-> i, inner |-> j,
                   offset |-> f.offset + f.typ.inner[j].offset,
                   size |-> f.typ.inner[j].size, value |-> <<>>]
             ELSE IF f.name = name
             THEN [name |-> name, found |-> TRUE, owner |-> i, inner |-> 0,
                   offset |-> f.offset, size |-> f.typ.size, value |-> <<>>]
             ELSE getattrUpFrom(st, i + 1, name)

getattrFirstDeclared(st, bytes, name) ==
    LET d == getattrUpFrom(st, 1, name)
    IN  [d EXCEPT !.value = SubSeq(bytes, d.offset + 1, d.offset + d.size)]

\* getattr(instance, name): the descriptor found and the bytes it reads.
getattr(st, bytes, name) ==
    LET d == getattrFrom(st, Len(st.fields), name)
    IN  [d EXCEPT !.value = SubSeq(bytes, d.offset + 1, d.offset + d.size)]

LookupNames == {"A", "B", "V", "Z"}

(***************************************************************************)
(* Arrays of dynamic structures.                                           *)
(***************************************************************************)
\* '_ArrayItem_%d' % idx
ItemNames ==
    << "_ArrayItem_0", "_ArrayItem_1", "_ArrayItem_2", "_ArrayItem_3",
       "_ArrayItem_4", "_ArrayItem_5", "_ArrayItem_6" >>

ItemName(i) == ItemNames[i + 1]

\* The outcome of a call of the pick function.
Picked(e, t) == [err |-> e, stop |-> FALSE, typ |-> t]

PickedFalse == [err |-> "none", stop |-> TRUE, typ |-> c_uint8]

\* The tests' structPickFunction: buffer[0] chooses a structure with
\* _pack_ = 1 and one field, c_uint8 or c_uint16; anything else gives False.
structPickFunction(buf) ==
    IF Len(buf) = 0 THEN Picked("IndexError", c_uint8)
    ELSE IF buf[1] = 0
    THEN Picked("none", AsType(TmpStructure(EmptyStructure, "Field0", c_uint8, 1, {})))
    ELSE IF buf[1] = 1
    THEN Picked("none", AsType(TmpStructure(EmptyStructure, "Field1", c_uint16, 1, {})))
    ELSE PickedFalse

\* class TmpArrayStructure(BaseStructure): _pack_ = pack;
\* _fields_ = curatedFieldsList.  The fields of one class are laid out one
\* after the other; only the size of the whole is padded.
RECURSIVE arrayFields(_, _, _, _, _)
arrayFields(items, i, end, pk, acc) ==
    IF i > Len(items) THEN acc
    ELSE LET t == items[i].typ
             off == AlignUp(end, Min(pk, t.align))
         IN  arrayFields(items, i + 1, off + t.size, pk,
                         Append(acc, [name |-> items[i].name, typ |-> t,
                                      offset |-> off, anon |-> FALSE]))

RECURSIVE MaxAlign(_, _, _)
MaxAlign(flds, i, pk) ==
    IF i > Len(flds) THEN 1
    ELSE Max(Min(pk, flds[i].typ.align), MaxAlign(flds, i + 1, pk))

TmpArrayStructure(items, pk) ==
    LET flds == arrayFields(items, 1, 0, pk, <<>>)
        n == Len(flds)
        total == MaxAlign(flds, 1, pk)
        end == IF n = 0 THEN 0 ELSE flds[n].offset + flds[n].typ.size
    IN  [fields |-> flds, size |-> AlignUp(end, total), align |-> total]

NoItem ==
    [idx |-> 0, raised |-> FALSE, name |-> "", offset |-> 0, size |-> 0,
     value |-> <<>>]

\* getArrayIndex with idx > len(self) for its upper bound.
getArrayIndexOffByOne(st, bytes, n, i) ==
    IF i > n \/ i < 0
    THEN [NoItem EXCEPT !.idx = i, !.raised = TRUE]
    ELSE LET d == getattr(st, bytes, ItemName(i))
         IN  [idx |-> i, raised |-> FALSE, name |-> d.name,
              offset |-> d.offset, size |-> d.size, value |-> d.value]

\* TmpArrayStructure.getArrayIndex on the instance with the given bytes; n is
\* len(self), the length of curatedFieldsList.
getArrayIndex(st, bytes, n, i) ==
    IF i >= n \/ i < 0
    THEN [NoItem EXCEPT !.idx = i, !.raised = TRUE]
    ELSE LET d == getattr(st, bytes, ItemName(i))
         IN  [idx |-> i, raised |-> FALSE, name |-> d.name,
              offset |-> d.offset, size |-> d.size, value |-> d.value]

(***************************************************************************)
(* The module DynamicStructure/dynamic_structure.py: its getStructureType  *)
(* makes no check of the buffer, and the BuildStructure of its             *)
(* getDynamicStructure has getAllFields and getUpdated.                    *)
(***************************************************************************)
\* The field tuples of the schemas whose structures are updated, and the
\* names and types given to getUpdated.
UpdateFieldTuples ==
    { FieldOfType("A", c_uint8),
      FieldOfType("B", c_uint32),
      FieldOfFunction("E", "arrayOfFirst") }

UpdateNames == {"A", "B", "E", "Z"}

UpdateTypes == {c_uint8, c_uint16, c_uint32}

\* dynamic_structure.getStructureType: a second element that is not a class
\* is called with parent().fill(buffer) and buffer[sizeof(parent):], and the
\* field is added in a subclass of parent whatever the buffer holds.
dynamic_structure_getStructureType(fieldTuple, buf, parent, pk, anon) ==
    LET parentFilled == fill(parent, buf)
        remainderOfBuffer == SliceFrom(buf, parent.size)
        typ == IF fieldTuple.fn # "none"
               THEN CallFunction(fieldTuple.fn, parentFilled, remainderOfBuffer)
               ELSE fieldTuple.typ
    IN  TmpStructure(parent, fieldTuple.name, typ, pk, anon)

\* s[::-1]
Reversed(s) == [i \in 1..Len(s) |-> s[Len(s) + 1 - i]]

\* The loop of getAllFields: type(self).mro() begins with the class of the
\* last field and ends with BuildStructure and Structure, which have no
\* _fields_; each class of the chain adds its one (name, type).
mroFields(st) ==
    [i \in 1..Len(st.fields) |->
        [name |-> st.fields[Len(st.fields) + 1 - i].name,
         typ |-> st.fields[Len(st.fields) + 1 - i].typ]]

\* BuildStructure.getAllFields: return fields[::-1]
getAllFields(st) == Reversed(mroFields(st))

\* The loop of getUpdated: the first tuple called fieldName gets fieldType,
\* then break.
replacedFirst(fieldsCopy, fieldName, fieldType) ==
    LET found == { i \in 1..Len(fieldsCopy) : fieldsCopy[i].name = fieldName }
        idxFound == CHOOSE i \in found : \A j \in found : i <= j
    IN  IF found = {} THEN fieldsCopy
        ELSE [fieldsCopy EXCEPT ![idxFound].typ = fieldType]

\* class TmpStructure(Structure): _pack_ = self._pack_; _fields_ = fieldsCopy
\* One class with all the fields: ctypes lays them out one after the other.
getUpdated_TmpStructure(fieldsCopy, pk) ==
    LET flds == arrayFields(fieldsCopy, 1, 0, pk, <<>>)
        n == Len(flds)
        total == MaxAlign(flds, 1, pk)
        end == IF n = 0 THEN 0 ELSE flds[n].offset + flds[n].typ.size
    IN  [fields |-> flds, size |-> AlignUp(end, total), align |-> total]

\* What getUpdated returns: False (found is FALSE) or a structure type.
ReturnedFalse == [found |-> FALSE, st |-> EmptyStructure]

\* BuildStructure.getUpdated(fieldName, fieldType) on an instance of st.
getUpdated(st, pk, fieldName, fieldType) ==
    LET fieldsCopy == getAllFields(st)
        found == \E i \in 1..Len(fieldsCopy) : fieldsCopy[i].name = fieldName
    IN  IF ~found THEN ReturnedFalse
        ELSE [found |-> TRUE,
              st |-> getUpdated_TmpStructure(
                         replacedFirst(fieldsCopy, fieldName, fieldType), pk)]

\* No call of getUpdated yet.
NotUpdated ==
    [called |-> FALSE, fieldName |-> "", fieldType |-> c_uint8,
     found |-> FALSE, st |-> EmptyStructure]

(***************************************************************************)
(* State.                                                                  *)
(***************************************************************************)
VARIABLES
    fields,            \* the list of field tuples given
    buffer,            \* the buffer given
    pack,              \* the pack given
    anonymous,         \* the anonymous names given
    picker,            \* the pick function given for an array, "none" if fields
    maxArrayLength,    \* the maxArrayLength given
    pc,                \* where the call is
    idx,               \* the index of the loop under way
    BuildStructure,    \* the structure type built so far
    err,               \* the exception raised, "none" if none
    errField,          \* the field the exception names
    calls,             \* the calls made to fields' functions, in order
    inst,              \* the bytes of the filled instance
    res,               \* the last attribute read
    window,            \* the array loop's buffer: what is left of the buffer
    start,             \* the number of bytes the array loop has dropped
    curatedFieldsList, \* the array's items so far: name, type, window start
    picks,             \* the outcomes of the calls of the pick function
    arrayType,         \* the TmpArrayStructure made
    item,              \* the last getArrayIndex
    updated            \* the last getUpdated: its arguments and what it returned

vars == << fields, buffer, pack, anonymous, picker, maxArrayLength, pc, idx,
           BuildStructure, err, errField, calls, inst, res, window, start,
           curatedFieldsList, picks, arrayType, item, updated >>

given == << fields, buffer, pack, anonymous, picker, maxArrayLength >>

arrayVars == << window, start, curatedFieldsList, picks, arrayType, item >>

InitCommon ==
    /\ pack \in Packs
    /\ BuildStructure = EmptyStructure
    /\ err = "none"
    /\ errField = ""
    /\ calls = <<>>
    /\ inst = <<>>
    /\ res = NotFound
    /\ window = buffer
    /\ start = 0
    /\ curatedFieldsList = <<>>
    /\ picks = <<>>
    /\ arrayType = EmptyStructure
    /\ item = NoItem
    /\ updated = NotUpdated

\* A call of getDynamicStructure(fields, buffer, pack).
Init ==
    /\ fields \in SchemasOf(FieldTuples)
    /\ buffer \in Buffers
    /\ anonymous = {}
    /\ picker = "none"
    /\ maxArrayLength = 0
    /\ pc = "build"
    /\ idx = 1
    /\ InitCommon

\* A call of getDynamicStructure(fields, buffer, pack, anonymous) whose
\* result's attributes are read.
InitLookup ==
    /\ fields \in SchemasOf(LookupFieldTuples)
    /\ buffer \in CountingBuffers
    /\ anonymous \in AnonymousSets
    /\ picker = "none"
    /\ maxArrayLength = 0
    /\ pc = "build"
    /\ idx = 1
    /\ InitCommon

\* A call of getArrayOfDynamicStructures(buffer, fields or function,
\* maxArrayLength, pack).
InitArray ==
    /\ picker \in {"none", "structPickFunction"}
    /\ fields \in IF picker = "none" THEN SchemasOf(ArrayFieldTuples) ELSE {<<>>}
    /\ buffer \in Buffers
    /\ anonymous = {}
    /\ maxArrayLength \in 0..MaxArrayLength
    /\ pc = "loop"
    /\ idx = 0
    /\ InitCommon

\* One turn of the loop of getDynamicStructureType.
GetStructureTypeStep ==
    /\ pc = "build"
    /\ idx <= Len(fields)
    /\ LET r == getStructureType(fields[idx], buffer, BuildStructure, pack, anonymous)
       IN  /\ calls' = calls \o r.call
           /\ BuildStructure' = r.st
           /\ err' = r.err
           /\ errField' = IF r.err = "none" THEN "" ELSE r.field
           /\ pc' = IF r.err = "none" THEN "build" ELSE "error"
           /\ idx' = IF r.err = "none" THEN idx + 1 ELSE idx
    /\ UNCHANGED << given, inst, res, arrayVars, updated >>

\* getDynamicStructure after the loop: structType().fill(buffer).
Fill ==
    /\ pc = "build"
    /\ idx > Len(fields)
    /\ inst' = fill(BuildStructure, buffer)
    /\ pc' = "filled"
    /\ UNCHANGED << given, idx, BuildStructure, err, errField, calls, res,
                    arrayVars, updated >>

\* Reading an attribute of the filled structure.
GetAttr ==
    /\ pc = "filled"
    /\ \E name \in LookupNames : res' = getattr(BuildStructure, inst, name)
    /\ UNCHANGED << given, pc, idx, BuildStructure, err, errField, calls, inst,
                    arrayVars, updated >>

\* The turn of the loop with a pick function, a false result not breaking
\* the loop but skipping the item.
PickStepNoBreak ==
    /\ pc = "loop"
    /\ idx < maxArrayLength
    /\ picker # "none"
    /\ LET ds == structPickFunction(window)
       IN  /\ picks' = Append(picks, ds)
           /\ IF ds.err # "none"
              THEN /\ pc' = "error"
                   /\ err' = ds.err
                   /\ UNCHANGED << idx, window, start, curatedFieldsList >>
              ELSE IF ds.stop
              THEN /\ idx' = idx + 1
                   /\ UNCHANGED << pc, err, window, start, curatedFieldsList >>
              ELSE /\ curatedFieldsList' =
                        Append(curatedFieldsList,
                               [name |-> ItemName(idx), typ |-> ds.typ,
                                start |-> start])
                   /\ window' = SliceFrom(window, ds.typ.size)
                   /\ start' = start + ds.typ.size
                   /\ idx' = idx + 1
                   /\ UNCHANGED << pc, err >>
    /\ UNCHANGED << given, BuildStructure, errField, calls, inst, res,
                    arrayType, item, updated >>

\* The turn of the loop with a pick function, the type picked being checked
\* against what is left of the buffer.
PickStepChecksRoom ==
    /\ pc = "loop"
    /\ idx < maxArrayLength
    /\ picker # "none"
    /\ LET ds == structPickFunction(window)
       IN  /\ picks' = Append(picks, ds)
           /\ IF ds.err # "none"
              THEN /\ pc' = "error"
                   /\ err' = ds.err
                   /\ UNCHANGED << idx, window, start, curatedFieldsList >>
              ELSE IF ds.stop
              THEN /\ pc' = "stopped"
                   /\ UNCHANGED << err, idx, window, start, curatedFieldsList >>
              ELSE IF Len(window) < ds.typ.size
              THEN /\ pc' = "error"
                   /\ err' = "BufferSizeInsufficient"
                   /\ UNCHANGED << idx, window, start, curatedFieldsList >>
              ELSE /\ curatedFieldsList' =
                        Append(curatedFieldsList,
                               [name |-> ItemName(idx), typ |-> ds.typ,
                                start |-> start])
                   /\ window' = SliceFrom(window, ds.typ.size)
                   /\ start' = start + ds.typ.size
                   /\ idx' = idx + 1
                   /\ UNCHANGED << pc, err >>
    /\ UNCHANGED << given, BuildStructure, errField, calls, inst, res,
                    arrayType, item, updated >>

\* One turn of the loop of getArrayOfDynamicStructuresType, a pick function
\* given: a false result breaks the loop, another is taken as the item's type.
PickStep ==
    /\ pc = "loop"
    /\ idx < maxArrayLength
    /\ picker # "none"
    /\ LET ds == structPickFunction(window)
       IN  /\ picks' = Append(picks, ds)
           /\ IF ds.err # "none"
              THEN /\ pc' = "error"
                   /\ err' = ds.err
                   /\ UNCHANGED << idx, window, start, curatedFieldsList >>
              ELSE IF ds.stop
              THEN /\ pc' = "stopped"
                   /\ UNCHANGED << err, idx, window, start, curatedFieldsList >>
              ELSE /\ curatedFieldsList' =
                        Append(curatedFieldsList,
                               [name |-> ItemName(idx), typ |-> ds.typ,
                                start |-> start])
                   /\ window' = SliceFrom(window, ds.typ.size)
                   /\ start' = start + ds.typ.size
                   /\ idx' = idx + 1
                   /\ UNCHANGED << pc, err >>
    /\ UNCHANGED << given, BuildStructure, errField, calls, inst, res,
                    arrayType, item, updated >>

\* One turn of the loop of getArrayOfDynamicStructuresType, a list of fields
\* given: the item's type is getDynamicStructureType of the loop's buffer.
FieldsStep ==
    /\ pc = "loop"
    /\ idx < maxArrayLength
    /\ picker = "none"
    /\ LET r == getDynamicStructureType(fields, window, pack, {})
       IN  IF r.err # "none"
           THEN /\ pc' = "error"
                /\ err' = r.err
                /\ errField' = r.field
                /\ UNCHANGED << idx, window, start, curatedFieldsList >>
           ELSE /\ curatedFieldsList' =
                     Append(curatedFieldsList,
                            [name |-> ItemName(idx), typ |-> AsType(r.st),
                             start |-> start])
                /\ window' = SliceFrom(window, r.st.size)
                /\ start' = start + r.st.size
                /\ idx' = idx + 1
                /\ UNCHANGED << pc, err, errField >>
    /\ UNCHANGED << given, BuildStructure, calls, inst, res, picks,
                    arrayType, item, updated >>

\* After the loop: class TmpArrayStructure, then s().fill(buffer) with the
\* buffer the caller gave.
MakeArray ==
    /\ \/ pc = "stopped"
       \/ pc = "loop" /\ idx = maxArrayLength
    /\ arrayType' = TmpArrayStructure(curatedFieldsList, pack)
    /\ inst' = fill(arrayType', buffer)
    /\ pc' = "done"
    /\ UNCHANGED << given, idx, BuildStructure, err, errField, calls, res,
                    window, start, curatedFieldsList, picks, item, updated >>

\* getArrayIndex(i) on the array made.
GetArrayIndex ==
    /\ pc = "done"
    /\ \E i \in -2..(MaxArrayLength + 1) :
          item' = getArrayIndex(arrayType, inst, Len(curatedFieldsList), i)
    /\ UNCHANGED << given, pc, idx, BuildStructure, err, errField, calls, inst,
                    res, window, start, curatedFieldsList, picks, arrayType,
                    updated >>

\* A call of dynamic_structure.getDynamicStructure(fields, buffer, pack),
\* followed by calls of getUpdated on what it returns.
InitUpdate ==
    /\ fields \in SchemasOf(UpdateFieldTuples)
    /\ buffer \in CountingBuffers
    /\ anonymous = {}
    /\ picker = "none"
    /\ maxArrayLength = 0
    /\ pc = "build"
    /\ idx = 1
    /\ InitCommon

\* One turn of the loop of dynamic_structure.getDynamicStructure.
AddField ==
    /\ pc = "build"
    /\ idx <= Len(fields)
    /\ BuildStructure' =
           dynamic_structure_getStructureType(fields[idx], buffer,
                                              BuildStructure, pack, anonymous)
    /\ idx' = idx + 1
    /\ UNCHANGED << given, pc, err, errField, calls, inst, res, arrayVars,
                    updated >>

\* retStruct.getUpdated(fieldName, fieldType): the structure and its class
\* are only read.
GetUpdated ==
    /\ pc = "filled"
    /\ \E fieldName \in UpdateNames, fieldType \in UpdateTypes :
          LET r == getUpdated(BuildStructure, pack, fieldName, fieldType)
          IN  updated' = [called |-> TRUE, fieldName |-> fieldName,
                          fieldType |-> fieldType, found |-> r.found,
                          st |-> r.st]
    /\ UNCHANGED << given, pc, idx, BuildStructure, err, errField, calls, inst,
                    res, arrayVars >>

Next == GetStructureTypeStep \/ Fill

NextLookup == GetStructureTypeStep \/ Fill \/ GetAttr

NextArray == PickStep \/ FieldsStep \/ MakeArray \/ GetArrayIndex

Spec == Init /\ [][Next]_vars

SpecLookup == InitLookup /\ [][NextLookup]_vars

SpecArray == InitArray /\ [][NextArray]_vars

NextUpdate == AddField \/ Fill \/ GetUpdated

SpecUpdate == InitUpdate /\ [][NextUpdate]_vars

(***************************************************************************)
(* Properties.                                                             *)
(***************************************************************************)
Layout == BuildStructure.fields

\* The bytes of the sequence s at offset off, size of them; -1 stands for a
\* byte s does not have.
BytesAt(s, off, size) ==
    [i \in 1..size |-> IF off + i <= Len(s) THEN s[off + i] ELSE -1]

\* What the first n bytes of the buffer are, zeros standing for missing bytes.
ZeroPadded(buf, n) == [i \in 1..n |-> IF i <= Len(buf) THEN buf[i] ELSE 0]

\* C1: a field whose type is a function makes the turn of the loop raise
\* BufferSizeInsufficient naming the field exactly when the rest of the
\* buffer after the structure so far is empty, the function then not being
\* called, or is shorter than the type the function returns; otherwise the
\* field is added with the type returned and nothing is raised.
C1_ResolvedFieldRaisesExactlyWhenShort ==
    [][ (pc = "build" /\ idx <= Len(fields) /\ fields[idx].len = 2
             /\ fields[idx].fn # "none")
        => LET name == fields[idx].name
               prefixView == ZeroPadded(buffer, BuildStructure.size)
               remaining == SliceFrom(buffer, BuildStructure.size)
               T == CallFunction(fields[idx].fn, prefixView, remaining)
               short == IF Len(remaining) = 0 THEN TRUE
                        ELSE Len(remaining) < T.size
           IN  /\ short <=> /\ pc' = "error"
                            /\ err' = "BufferSizeInsufficient"
                            /\ errField' = name
               /\ short => BuildStructure' = BuildStructure
               /\ Len(remaining) = 0 => calls' = calls
               /\ ~short =>
                    /\ pc' = "build" /\ err' = "none" /\ idx' = idx + 1
                    /\ Len(calls') = Len(calls) + 1
                    /\ calls'[Len(calls')].remainder = remaining
                    /\ calls'[Len(calls')].self = prefixView
                    /\ Len(BuildStructure'.fields) = Len(Layout) + 1
                    /\ SubSeq(BuildStructure'.fields, 1, Len(Layout)) = Layout
                    /\ BuildStructure'.fields[Len(Layout) + 1].name = name
                    /\ BuildStructure'.fields[Len(Layout) + 1].typ = T
      ]_vars

\* C1 witness: a function that would return a type of size zero is not
\* called, and the field fails, because nothing is left of the buffer.
C1_Witness ==
    /\ pc = "error" /\ err = "BufferSizeInsufficient" /\ errField = "E"
    /\ idx = 2 /\ fields[1] = FieldOfType("A", c_uint8)
    /\ buffer = <<0>> /\ calls = <<>>

HasBitField == \E i \in 1..Len(fields) : fields[i].len = 3

FirstBitField ==
    CHOOSE i \in 1..Len(fields) :
        fields[i].len = 3 /\ \A k \in 1..(i - 1) : fields[k].len # 3

\* C2 as stated: a schema with a bit field at any position fails with
\* BitFieldUnsupportedError whatever the buffer and the fields before it.
C2_Original_BitFieldAlwaysWins ==
    HasBitField =>
        /\ pc # "filled"
        /\ pc = "error" => err = "BitFieldUnsupportedError"

\* C2 amended: a schema with a bit field never yields a structure; it fails
\* with BitFieldUnsupportedError at the first bit field when every field
\* before it was added, and otherwise with the BufferSizeInsufficient of a
\* function field declared before the first bit field.  The bit field itself
\* fails before any call to a function.
C2_BitFieldFailsWhenReached ==
    HasBitField =>
        /\ pc # "filled"
        /\ idx <= FirstBitField
        /\ pc = "error" =>
              IF idx = FirstBitField
              THEN /\ err = "BitFieldUnsupportedError"
                   /\ errField = fields[idx].name
                   /\ Len(calls) =
                        Cardinality({k \in 1..(idx - 1) : fields[k].fn # "none"})
              ELSE /\ err = "BufferSizeInsufficient"
                   /\ fields[idx].fn # "none"
                   /\ errField = fields[idx].name

\* C2 witness: the bit field is reached after a function field was resolved.
C2_Witness ==
    /\ pc = "error" /\ err = "BitFieldUnsupportedError"
    /\ idx = 2 /\ fields[1].fn # "none" /\ Len(calls) = 1

\* min(pack, natural alignment) of the i-th field of the layout.
FieldAlign(i) == Min(pack, Layout[i].typ.align)

EndOffset(i) == IF i = 0 THEN 0 ELSE Layout[i].offset + Layout[i].typ.size

\* The largest FieldAlign among the first j fields, 1 if j = 0.
PrefixAlign(j) ==
    IF j = 0 THEN 1
    ELSE CHOOSE a \in { FieldAlign(k) : k \in 1..j } :
            \A k \in 1..j : FieldAlign(k) <= a

\* The size of the layout of the first j fields.
PrefixSize(j) == AlignUp(EndOffset(j), PrefixAlign(j))

NonDecreasingOffsets ==
    \A i \in 2..Len(Layout) : Layout[i - 1].offset <= Layout[i].offset

\* C6 as stated: every field sits at the smallest multiple of
\* min(pack, natural alignment) at or after the end of the field before it,
\* and the total size is the last end offset rounded up to pack.
C6_Original_PackingRule ==
    pc = "filled" =>
        /\ NonDecreasingOffsets
        /\ \A i \in 1..Len(Layout) :
              Layout[i].offset = AlignUp(EndOffset(i - 1), FieldAlign(i))
        /\ BuildStructure.size = AlignUp(EndOffset(Len(Layout)), pack)

\* C6 amended: offsets do not decrease; every field sits at the smallest
\* multiple of min(pack, natural alignment) at or after the size of the
\* layout of the fields before it, which is the end of the field before it
\* rounded up to the largest min(pack, natural alignment) among the fields
\* before it; the total size is the last end offset rounded up to the
\* largest min(pack, natural alignment) among all the fields.  [A: u8,
\* B: u32] with pack 4 puts B at 4 and has size 8.
C6_PackingRule ==
    pc = "filled" =>
        /\ NonDecreasingOffsets
        /\ \A i \in 1..Len(Layout) :
              Layout[i].offset = AlignUp(PrefixSize(i - 1), FieldAlign(i))
        /\ BuildStructure.size = PrefixSize(Len(Layout))
        /\ BuildStructure.align = PrefixAlign(Len(Layout))
        /\ (fields = << FieldOfType("A", c_uint8), FieldOfType("B", c_uint32) >>
               /\ pack = 4)
           => Layout[2].offset = 4 /\ BuildStructure.size = 8

\* C6 witness: a third field that the padded size of the first two pushes
\* past the end of the second.
C6_Witness ==
    /\ pc = "filled" /\ pack = 2
    /\ fields = << FieldOfType("B", c_uint32), FieldOfType("A", c_uint8),
                   FieldOfType("A", c_uint8) >>
    /\ Layout[3].offset = 6 /\ BuildStructure.size = 8

\* The index in the schema of the j-th field whose type is a function.
FunctionFieldIndex(j) ==
    CHOOSE i \in 1..Len(fields) :
        /\ fields[i].fn # "none"
        /\ Cardinality({k \in 1..(i - 1) : fields[k].fn # "none"}) = j - 1

WorkedSchema ==
    << FieldOfType("A", c_uint8), FieldOfFunction("E", "arrayOfFirst"),
       FieldOfType("A", c_uint8) >>

\* C7: in a decode that succeeds, every function is called with a view of
\* the fields declared before its field, each holding the buffer's bytes at
\* its offset, and with the buffer from the end of that layout on; with a
\* buffer as long as the structure every field of the result holds the
\* buffer's bytes at its offset.  For [NumElements: u8, Elements: u8 *
\* NumElements, Post: u8] at pack 1: NumElements = buffer[0], Elements =
\* buffer[1 : 1 + NumElements], Post = buffer[1 + NumElements] and the size
\* is NumElements + 2.
C7_PrefixViewAndWorkedDecode ==
    pc = "filled" =>
        /\ \A j \in 1..Len(calls) :
              LET k == FunctionFieldIndex(j)
              IN  /\ calls[j].field = fields[k].name
                  /\ calls[j].typ = Layout[k].typ
                  /\ Len(calls[j].self) = PrefixSize(k - 1)
                  /\ \A i \in 1..(k - 1) :
                        BytesAt(calls[j].self, Layout[i].offset, Layout[i].typ.size)
                          = BytesAt(buffer, Layout[i].offset, Layout[i].typ.size)
                  /\ calls[j].remainder = SliceFrom(buffer, PrefixSize(k - 1))
        /\ Len(buffer) >= BuildStructure.size =>
              \A i \in 1..Len(Layout) :
                  BytesAt(inst, Layout[i].offset, Layout[i].typ.size)
                    = BytesAt(buffer, Layout[i].offset, Layout[i].typ.size)
        /\ (fields = WorkedSchema /\ pack = 1) =>
              /\ BuildStructure.size = buffer[1] + 2
              /\ Layout[1].offset = 0 /\ Layout[2].offset = 1
              /\ Layout[2].typ.size = buffer[1]
              /\ Layout[3].offset = 1 + buffer[1]
              /\ calls = << [field |-> "E", self |-> << buffer[1] >>,
                             selfType |-> calls[1].selfType,
                             remainder |-> SliceFrom(buffer, 1),
                             typ |-> ArrayOf(c_uint8, buffer[1])] >>
              /\ Len(buffer) >= buffer[1] + 2 =>
                    /\ inst[1] = buffer[1]
                    /\ BytesAt(inst, 1, buffer[1]) = SubSeq(buffer, 2, 1 + buffer[1])
                    /\ inst[2 + buffer[1]] = buffer[2 + buffer[1]]

\* C7 witness: the worked schema decoded from a buffer that holds a count of
\* one, one element and the field after it.
C7_Witness ==
    /\ pc = "filled" /\ fields = WorkedSchema /\ pack = 1
    /\ Len(buffer) = 3 /\ buffer[1] = 1
    /\ inst = buffer

FixedOnly == \A i \in 1..Len(fields) : fields[i].fn = "none"

\* C8: fill never fails; the instance has as many bytes as the structure's
\* size, byte i is the buffer's byte i wherever the buffer has one, padding
\* included, and zero past the end of the buffer; so a structure of fixed
\* fields filled from a buffer at least as long gives back
\* buffer[0 : size] as its copy of the bytes.
C8_FillCopiesAndZeroPads ==
    /\ pc = "filled" =>
          /\ Len(inst) = BuildStructure.size
          /\ \A i \in 1..Len(inst) :
                inst[i] = IF i <= Len(buffer) THEN buffer[i] ELSE 0
          /\ (FixedOnly /\ Len(buffer) >= BuildStructure.size) =>
                getBytesCopy(inst, BuildStructure)
                  = SubSeq(buffer, 1, BuildStructure.size)
    /\ \A j \in 1..Len(calls) :
          /\ Len(calls[j].self) = calls[j].selfType.size
          /\ \A i \in 1..Len(calls[j].self) :
                calls[j].self[i] = IF i <= Len(buffer) THEN buffer[i] ELSE 0

\* C8 witness: a structure with padding filled from a buffer that ends
\* inside it.
C8_Witness ==
    /\ pc = "filled" /\ pack = 4
    /\ fields = << FieldOfType("A", c_uint8), FieldOfType("B", c_uint32) >>
    /\ Len(buffer) = 3 /\ buffer[1] # 0 /\ buffer[2] # 0 /\ buffer[3] # 0
    /\ Len(inst) = 8


Items == curatedFieldsList

IsContinue(p) == p.err = "none" /\ ~p.stop

\* C3 as stated: with a pick function no item of the array reaches past the
\* end of the buffer (a type larger than what is left raises
\* BufferSizeInsufficient instead).
C3_Original_PickedItemFitsBuffer ==
    picker # "none" =>
        \A i \in 1..Len(Items) :
            Items[i].start + Items[i].typ.size <= Len(buffer)

\* C3 amended: with a pick function the type picked is never checked against
\* what is left of the buffer: every type the function returns becomes an
\* item, BufferSizeInsufficient is never raised, and the bytes of the array
\* past the end of the buffer are zero.  BufferSizeInsufficient in the
\* middle of an array comes only from a function field of a list of fields.
C3_PickedItemIsNotChecked ==
    /\ picker # "none" =>
          /\ err # "BufferSizeInsufficient"
          /\ \A j \in 1..Len(picks) :
                IsContinue(picks[j]) =>
                    /\ j <= Len(Items)
                    /\ Items[j].typ = picks[j].typ
                    /\ picks[j] = structPickFunction(SliceFrom(buffer, Items[j].start))
          /\ pc = "done" =>
                \A k \in 1..Len(inst) : k > Len(buffer) => inst[k] = 0
    /\ (picker = "none" /\ err = "BufferSizeInsufficient") =>
          \E k \in 1..Len(fields) :
              fields[k].fn # "none" /\ fields[k].name = errField

\* C3 witness: an array whose last item was picked with less left of the
\* buffer than its size.
C3_Witness ==
    /\ pc = "done" /\ picker # "none" /\ Len(Items) = 2
    /\ Items[2].start + Items[2].typ.size > Len(buffer)
    /\ Items[2].start < Len(buffer)

\* C4: a pick function that returns k types and then False, k below
\* maxArrayLength, ends the array without an exception with k items, after
\* exactly k + 1 calls; no array has more than maxArrayLength items.
C4_StopEndsArray ==
    /\ Len(Items) <= maxArrayLength
    /\ (picker # "none" /\ picks # <<>> /\ picks[Len(picks)].stop) =>
          LET k == Len(picks) - 1
          IN  /\ pc \in {"stopped", "done"}
              /\ err = "none"
              /\ k < maxArrayLength
              /\ Len(Items) = k
              /\ \A j \in 1..k : IsContinue(picks[j]) /\ Items[j].typ = picks[j].typ
              /\ pc = "done" => Len(arrayType.fields) = k

\* C4 witness: two items, then False at the third call, three being allowed.
C4_Witness ==
    /\ pc = "done" /\ picker # "none" /\ maxArrayLength = 3
    /\ Len(picks) = 3 /\ picks[3].stop /\ Len(Items) = 2
    /\ start <= Len(buffer)

\* The sizes of the first n items added up.
RECURSIVE SumOfSizes(_)
SumOfSizes(n) == IF n = 0 THEN 0 ELSE SumOfSizes(n - 1) + Items[n].typ.size

\* C5: in every array made, item i sits at the sum of the sizes of the items
\* before it, which is where the loop's buffer began when the item's type
\* was resolved or picked, so that the item reads the bytes that chose its
\* type.
C5_ItemOffsetIsWindowStart ==
    pc = "done" =>
        \A i \in 1..Len(Items) :
            /\ Items[i].start = SumOfSizes(i - 1)
            /\ arrayType.fields[i].offset = Items[i].start
            /\ BytesAt(inst, arrayType.fields[i].offset, Items[i].typ.size)
                 = BytesAt(ZeroPadded(buffer, Len(inst)), Items[i].start,
                           Items[i].typ.size)

OwnIndices(name) == { i \in 1..Len(Layout) : Layout[i].name = name }

HasInner(i, name) ==
    \E j \in 1..Len(Layout[i].typ.inner) : Layout[i].typ.inner[j].name = name

AnonIndices(name) ==
    { i \in 1..Len(Layout) : Layout[i].anon /\ HasInner(i, name) }

MinOf(S) == CHOOSE x \in S : \A y \in S : x <= y

MaxOf(S) == CHOOSE x \in S : \A y \in S : y <= x

\* The result of a lookup that finds the field i itself.
IsOwn(r, i) ==
    /\ r.found /\ r.owner = i /\ r.inner = 0
    /\ r.offset = Layout[i].offset /\ r.size = Layout[i].typ.size

\* The result of a lookup that finds a field inside the anonymous field i.
IsInner(r, i) ==
    /\ r.found /\ r.owner = i /\ r.inner \in 1..Len(Layout[i].typ.inner)
    /\ Layout[i].typ.inner[r.inner].name = r.name
    /\ r.offset = Layout[i].offset + Layout[i].typ.inner[r.inner].offset
    /\ r.size = Layout[i].typ.inner[r.inner].size

\* C9 as stated: the structure's own fields first, the first declared of a
\* name winning; then the inner fields of the anonymous fields in
\* declaration order; not found otherwise.
C9_Original_OwnFirstDeclaredWins ==
    (pc = "filled" /\ res.name # "") =>
        IF OwnIndices(res.name) # {}
        THEN IsOwn(res, MinOf(OwnIndices(res.name)))
        ELSE IF AnonIndices(res.name) # {}
        THEN IsInner(res, MinOf(AnonIndices(res.name)))
        ELSE ~res.found

\* C9 amended: the fields are searched from the last declared to the first;
\* at each field an inner field of that name wins if the field is anonymous,
\* else the field itself if it has that name; not found if no field
\* matches.  So a later field shadows an earlier one of the same name, and
\* an inner field of an anonymous field shadows the anonymous field itself
\* and the own fields declared before it.
C9_LastDeclaredWins ==
    (pc = "filled" /\ res.name # "") =>
        LET cand == OwnIndices(res.name) \cup AnonIndices(res.name)
        IN  /\ IF cand = {} THEN ~res.found
               ELSE IF MaxOf(cand) \in AnonIndices(res.name)
               THEN IsInner(res, MaxOf(cand))
               ELSE IsOwn(res, MaxOf(cand))
            /\ res.value = BytesAt(inst, res.offset, res.size)

\* C9 witness: the inner field A of an anonymous field read in place of an
\* own field A declared before it.
C9_Witness ==
    /\ pc = "filled" /\ res.name = "A" /\ res.found /\ res.inner # 0
    /\ res.owner = 2 /\ Layout[1].name = "A"

\* C10: getArrayIndex(i) raises IndexError exactly when i < 0 or i is at
\* least the number of items made, whether the loop ran to maxArrayLength
\* or was broken before; otherwise it returns the i-th item; the length of
\* the array is the number of items made.
C10_GetArrayIndexBounds ==
    pc = "done" =>
        LET n == Len(Items)
        IN  /\ n = idx
            /\ Len(arrayType.fields) = n
            /\ item # NoItem =>
                  /\ item.raised <=> (item.idx < 0 \/ item.idx >= n)
                  /\ ~item.raised =>
                        /\ item.name = Items[item.idx + 1].name
                        /\ item.name = ItemName(item.idx)
                        /\ item.offset = arrayType.fields[item.idx + 1].offset
                        /\ item.size = Items[item.idx + 1].typ.size
                        /\ item.value = BytesAt(inst, item.offset, item.size)

\* C10 witness: the index just past the last item of an array that a False
\* ended before maxArrayLength.
C10_Witness ==
    /\ pc = "done" /\ picker # "none" /\ Len(Items) = 1 /\ maxArrayLength = 3
    /\ item.raised /\ item.idx = 1


\* The structure getStructureType makes of a list of (name, type), one
\* subclass for each, with the pack given: the layout of the original.
RECURSIVE ChainOf(_, _, _, _)
ChainOf(flds, i, st, pk) ==
    IF i > Len(flds) THEN st
    ELSE ChainOf(flds, i + 1,
                 TmpStructure(st, flds[i].name, flds[i].typ, pk, {}), pk)

NamedIndices(name) == { i \in 1..Len(Layout) : Layout[i].name = name }

\* The field list the claim describes: the original's, the first field
\* called fieldName having fieldType.
ExpectedFields ==
    LET first == MinOf(NamedIndices(updated.fieldName))
    IN  [i \in 1..Len(Layout) |->
            [name |-> Layout[i].name,
             typ |-> IF i = first THEN updated.fieldType ELSE Layout[i].typ]]

\* C11: getUpdated(name, newType) on a structure with a field called name
\* returns a structure with the same names in the same order, the type of
\* the first field called name replaced and no other, and offsets and size
\* those the original's packing rule and pack give to that list of fields;
\* without a field called name it returns False.
C11_UpdatedKeepsPackingRule ==
    updated.called =>
        IF NamedIndices(updated.fieldName) = {}
        THEN ~updated.found
        ELSE /\ updated.found
             /\ Len(updated.st.fields) = Len(Layout)
             /\ \A i \in 1..Len(Layout) :
                   /\ updated.st.fields[i].name = ExpectedFields[i].name
                   /\ updated.st.fields[i].typ = ExpectedFields[i].typ
             /\ LET same == ChainOf(ExpectedFields, 1, EmptyStructure, pack)
                IN  /\ \A i \in 1..Len(Layout) :
                          updated.st.fields[i].offset = same.fields[i].offset
                    /\ updated.st.size = same.size

\* C12: in every decode that succeeds, whatever the pack, each field whose
\* type is a function lies inside the buffer and begins where the rest of
\* the buffer given to its function began, so that it never reads zeros in
\* place of bytes of the buffer.
C12_ResolvedFieldInsideBuffer ==
    pc = "filled" =>
        \A j \in 1..Len(calls) :
            LET k == FunctionFieldIndex(j)
            IN  /\ Layout[k].offset + Layout[k].typ.size <= Len(buffer)
                /\ Layout[k].offset = Len(buffer) - Len(calls[j].remainder)
                /\ BytesAt(inst, Layout[k].offset, Layout[k].typ.size)
                     = BytesAt(calls[j].remainder, 0, Layout[k].typ.size)


====
